---------------------------- MODULE Spec2Model ----------------------------
(***************************************************************************)
(* Deep Research workflow engine of research-agent.                        *)
(*                                                                         *)
(* The state machines of this module:                                      *)
(*   SpecMerge  the section reducer (section_reducer of                    *)
(*              src/deep_research/README.md), applied to bounded inputs;   *)
(*   Spec       one research run: Clarify, Analyze, Discover,              *)
(*              PlanAndDispatch, parallel Researchers, Aggregate, Review,  *)
(*              Report.  LiveSpec is Spec with the fairness of the         *)
(*              orchestrator, which runs every enabled node.               *)
(*   SpecClarify  the clarification dialogue of one run, answer by answer. *)
(*   SpecLoop   one execution of the tool-calling loop shared by Discover  *)
(*              and the Researchers; LiveLoop adds its scheduling.         *)
(*   SpecStream streamChat of web-ui/lib/stream.ts reading one response    *)
(*              body chunk by chunk.                                       *)
(*   SpecUse    the useStream hook of web-ui/hooks/useWebSocket.ts.        *)
(*   SpecChat   the chat store (useChatStore) and the calls the chat       *)
(*              components make on it.                                     *)
(*   SpecSocket the useWebSocket hook with its reconnect timer.            *)
(* The variables of the machine a specification does not drive stay at     *)
(* their idle values.                                                      *)
(***************************************************************************)
EXTENDS Integers, Sequences, FiniteSets, TLC

VARIABLES
    \* ---- one research run (WorkflowState and the orchestrator) ----
    phase,                        \* the node the orchestrator is at
    clarifiedQuery,               \* Null until Clarify resolves
    pendingClarificationQuestion, \* non-null while awaiting the human answer
    clarifyRounds,                \* clarification questions asked so far
    queryType,                    \* set by Analyze
    analysis,                     \* the QueryAnalysis Analyze just returned
    discoveredEntities,           \* sequence of entity names
    sections,                     \* sequence of Section
    reviewIterationCount,
    maxReviewIterations,
    finalReport,
    tasks,                        \* title -> "running" | "done" | "failed"
    roundIndex,                   \* dispatch rounds started
    reviewResult,                 \* the ReviewResult Review just produced
    error,                        \* Null or the fatal error's name
    \* ---- the reducer applied to bounded inputs ----
    mpc, mExisting, mUpdates, mOnce, mTwice, mSerial, mLeft,
    \* ---- the clarification dialogue ----
    dpc,                          \* "clarify" | "waiting" | "analyze" | "error"
    dMessages,                    \* the user's answers appended to messages
    dNeeds,                       \* needs_clarification
    dRounds,                      \* questions asked
    \* ---- one execution of the tool loop ----
    lpc,                          \* "invoke" | "tools" | "finalize" | "failed"
    lIter,                        \* iterationCount
    lMax,                         \* maxIterations
    lCalls,                       \* the tool calls of this turn -> state
    lResults,                     \* tool-result messages in the history
    lErrors,                      \* those of them that are error messages
    lStop,                        \* what ended the loop
    \* ---- streamChat reading one body ----
    spc,                          \* "reading" | "done"
    sInput,                       \* the whole response body
    sRest,                        \* the part of it not yet read
    sBuffer,                      \* buffer
    sDispatched,                  \* events handed to handleStreamEvent
    \* ---- the useStream hook ----
    uStatus,                      \* status
    uError,                       \* error
    uRef,                         \* abortControllerRef.current
    uReqs,                        \* request -> where its sendMessage call is
    uAborted,                     \* controllers whose signal is aborted
    \* ---- the chat store ----
    currentMessages,              \* currentMessages
    streamingMessage,             \* streamingMessage, NoRecord for null
    chatError,                    \* error
    isDeepResearch,               \* isDeepResearch
    canToggleDeepResearch,        \* canToggleDeepResearch
    cEvents,                      \* store calls that added content so far
    cLate,                        \* a handler ran since the message ended
    \* ---- the WebSocket hook ----
    wsStatus,                     \* status
    wsError,                      \* error
    wsRef,                        \* wsRef.current
    reconnectCountRef,            \* reconnectCountRef.current
    reconnectTimeoutRef,          \* reconnectTimeoutRef.current
    wsTimers,                     \* the timers that are pending
    wsSockets,                    \* every WebSocket created, in order
    wsDisconnected                \* disconnect() ran since the last open

wfVars == <<phase, clarifiedQuery, pendingClarificationQuestion, clarifyRounds,
            queryType, analysis, discoveredEntities, sections,
            reviewIterationCount, maxReviewIterations, finalReport, tasks,
            roundIndex, reviewResult, error>>

mVars == <<mpc, mExisting, mUpdates, mOnce, mTwice, mSerial, mLeft>>

dVars == <<dpc, dMessages, dNeeds, dRounds>>

lVars == <<lpc, lIter, lMax, lCalls, lResults, lErrors, lStop>>

sVars == <<spc, sInput, sRest, sBuffer, sDispatched>>

uVars == <<uStatus, uError, uRef, uReqs, uAborted>>

cVars == <<currentMessages, streamingMessage, chatError, isDeepResearch,
           canToggleDeepResearch, cEvents, cLate>>

kVars == <<wsStatus, wsError, wsRef, reconnectCountRef, reconnectTimeoutRef,
           wsTimers, wsSockets, wsDisconnected>>

vars == <<wfVars, mVars, dVars, lVars, sVars, uVars, cVars, kVars>>

\* what each machine leaves alone
restOfRun == <<mVars, dVars, lVars, sVars, uVars, cVars, kVars>>

restOfMerge == <<wfVars, dVars, lVars, sVars, uVars, cVars, kVars>>

restOfClarify == <<wfVars, mVars, lVars, sVars, uVars, cVars, kVars>>

restOfLoop == <<wfVars, mVars, dVars, sVars, uVars, cVars, kVars>>

restOfStream == <<wfVars, mVars, dVars, lVars, uVars, cVars, kVars>>

restOfUse == <<wfVars, mVars, dVars, lVars, sVars, cVars, kVars>>

restOfChat == <<wfVars, mVars, dVars, lVars, sVars, uVars, kVars>>

restOfSocket == <<wfVars, mVars, dVars, lVars, sVars, uVars, cVars>>

Null == "null"

\* the absent value of a record-valued field
NoRecord == [none |-> TRUE]

\* ------------------------------------------------------------------ bounds

\* longest existing / updates sequence handed to the reducer
MaxLen == 2

\* most sections an outline holds
MaxSections == 2

\* max_review_iterations as DeepResearchConfig sets it by default; a run is
\* configured with this value or a smaller one
DefaultMaxReviewIterations == 2

\* clarification questions a modelled run asks at most
ClarifyCap == 1

\* answers a modelled clarification dialogue holds at most
DialogueBound == 5

\* "at most 2-3 rounds of clarification": the larger soft cap
SoftCapRounds == 3

\* most tool calls the model requests in one turn
MaxCallsPerTurn == 2

\* longest response body, in characters
MaxBody == 4

\* most sendMessage calls of one mounted hook
MaxRequests == 3

\* most store calls that add a message or content between two newChat
MaxStoreEvents == 4

\* most WebSockets one mounted hook creates
MaxSockets == 5

\* reconnectAttempts when the options name none
DefaultReconnectAttempts == 3

\* max_tool_calls of a Researcher, by default
DefaultMaxToolCalls == 10

\* max_discover_iterations of Discover, by default
DefaultMaxDiscoverIterations == 5

\* --------------------------------------------------------------- sections

TitlePool == <<"A", "B", "C", "D">>

Titles == {TitlePool[i] : i \in 1..MaxSections}

Section(t, d, st, c, src) ==
    [title |-> t, description |-> d, status |-> st, content |-> c, sources |-> src]

TitlesOf(secs) == {secs[i].title : i \in DOMAIN secs}

\* the titles, in sequence order
TitleSeq(secs) == [i \in DOMAIN secs |-> secs[i].title]

\* existing_titles = {s.title: i for i, s in enumerate(result)}
\* (a dict comprehension: a title that occurs twice keeps its last index)
existing_titles(result) ==
    [t \in TitlesOf(result) |->
        CHOOSE i \in DOMAIN result :
            /\ result[i].title = t
            /\ \A j \in DOMAIN result : result[j].title = t => j <= i]

\* the for loop of section_reducer: the index is built once, before the loop
RECURSIVE ReduceLoop(_, _, _)
ReduceLoop(result, index, updates) ==
    IF updates = <<>> THEN result
    ELSE LET update == Head(updates) IN
         IF update.title \in DOMAIN index
         THEN ReduceLoop([result EXCEPT ![index[update.title]] = update],
                         index, Tail(updates))
         ELSE ReduceLoop(Append(result, update), index, Tail(updates))

\* mutant: an update never replaces, it is always appended
section_reducer_append(existing, updates) == existing \o updates

\* mutant: an update to an existing title is moved to the end
section_reducer_move(existing, updates) ==
    LET kept == SelectSeq(existing,
                    LAMBDA s : \A k \in DOMAIN updates : updates[k].title # s.title)
    IN ReduceLoop(kept, existing_titles(kept), updates)

section_reducer(existing, updates) ==
    ReduceLoop(existing, existing_titles(existing), updates)

Distinct(secs) ==
    \A i, j \in DOMAIN secs : secs[i].title = secs[j].title => i = j

\* ------------------------------------------- the reducer on bounded inputs

MergeTitles == {"A", "B", "C"}

\* a section as planned, and the same section as a researcher returned it
SectionValues ==
    {Section(t, "d", "pending", "", <<>>) : t \in MergeTitles}
        \cup {Section(t, "d", "completed", "c1", <<"u1">>) : t \in MergeTitles}

SectionSeqs == UNION {[1..k -> SectionValues] : k \in 0..MaxLen}

IdleMerge ==
    /\ mpc = "idle"
    /\ mExisting = <<>>
    /\ mUpdates = <<>>
    /\ mOnce = <<>>
    /\ mTwice = <<>>
    /\ mSerial = <<>>
    /\ mLeft = {}

\* the state of a run in which no run was started
IdleWorkflow ==
    /\ phase = "idle"
    /\ clarifiedQuery = Null
    /\ pendingClarificationQuestion = Null
    /\ clarifyRounds = 0
    /\ queryType = Null
    /\ analysis = NoRecord
    /\ discoveredEntities = <<>>
    /\ sections = <<>>
    /\ reviewIterationCount = 0
    /\ maxReviewIterations = 1
    /\ finalReport = NoRecord
    /\ tasks = <<>>
    /\ roundIndex = 0
    /\ reviewResult = NoRecord
    /\ error = Null

\* no clarification dialogue is driven
IdleClarify ==
    /\ dpc = "idle"
    /\ dMessages = <<>>
    /\ dNeeds = FALSE
    /\ dRounds = 0

\* no tool loop is driven
IdleLoop ==
    /\ lpc = "idle"
    /\ lIter = 0
    /\ lMax = 1
    /\ lCalls = <<>>
    /\ lResults = 0
    /\ lErrors = 0
    /\ lStop = Null

\* no response body is read
IdleStream ==
    /\ spc = "idle"
    /\ sInput = <<>>
    /\ sRest = <<>>
    /\ sBuffer = <<>>
    /\ sDispatched = <<>>

\* no hook is mounted
IdleUse ==
    /\ uStatus = "idle"
    /\ uError = Null
    /\ uRef = {}
    /\ uReqs = <<>>
    /\ uAborted = {}

\* the chat store is not used
IdleChat ==
    /\ currentMessages = <<>>
    /\ streamingMessage = NoRecord
    /\ chatError = Null
    /\ isDeepResearch = FALSE
    /\ canToggleDeepResearch = TRUE
    /\ cEvents = 0
    /\ cLate = FALSE

\* no WebSocket hook is mounted
IdleSocket ==
    /\ wsStatus = "idle"
    /\ wsError = Null
    /\ wsRef = {}
    /\ reconnectCountRef = 0
    /\ reconnectTimeoutRef = {}
    /\ wsTimers = {}
    /\ wsSockets = <<>>
    /\ wsDisconnected = FALSE

InitMerge ==
    /\ IdleWorkflow
    /\ IdleClarify
    /\ IdleLoop
    /\ IdleStream
    /\ IdleUse
    /\ IdleChat
    /\ IdleSocket
    /\ mpc = "start"
    /\ mExisting \in SectionSeqs
    /\ mUpdates \in SectionSeqs
    /\ mOnce = <<>>
    /\ mTwice = <<>>
    /\ mSerial = mExisting
    /\ mLeft = DOMAIN mUpdates

\* one call with all the updates
MergeOnce ==
    /\ mpc = "start"
    /\ mOnce' = section_reducer(mExisting, mUpdates)
    /\ mpc' = "once"
    /\ UNCHANGED <<mExisting, mUpdates, mTwice, mSerial, mLeft, restOfMerge>>

\* the same updates applied to the result again
MergeTwice ==
    /\ mpc = "once"
    /\ mTwice' = section_reducer(mOnce, mUpdates)
    /\ mpc' = "twice"
    /\ UNCHANGED <<mExisting, mUpdates, mOnce, mSerial, mLeft, restOfMerge>>

\* the updates arrive one at a time, in any order: one reducer call each
MergeOne(i) ==
    /\ mpc = "twice"
    /\ i \in mLeft
    /\ mSerial' = section_reducer(mSerial, <<mUpdates[i]>>)
    /\ mLeft' = mLeft \ {i}
    /\ UNCHANGED <<mpc, mExisting, mUpdates, mOnce, mTwice, restOfMerge>>

NextMerge ==
    \/ MergeOnce
    \/ MergeTwice
    \/ \E i \in 1..MaxLen : MergeOne(i)

SpecMerge == InitMerge /\ [][NextMerge]_vars

MergeDone == mpc = "twice" /\ mLeft = {}

\* the titles of the updates that are not titles of existing
NewTitles(existing, updates) == TitlesOf(updates) \ TitlesOf(existing)

\* the last update that carries title t
LastUpdate(updates, t) ==
    updates[CHOOSE k \in DOMAIN updates :
                /\ updates[k].title = t
                /\ \A m \in DOMAIN updates : updates[m].title = t => m <= k]

\* C6: section merge is idempotent: merging the same updates into the result
\* of a merge gives that result again, for every existing and updates.
C6_MergeIdempotent ==
    mpc = "twice" => mTwice = mOnce

\* C6 witness: a merge that replaced one entry and appended another, repeated
C6_Witness ==
    /\ mpc = "twice"
    /\ Len(mUpdates) = 2
    /\ mUpdates[1].title \in TitlesOf(mExisting)
    /\ mUpdates[2].title \notin TitlesOf(mExisting)
    /\ mOnce # mExisting
    /\ mTwice = mOnce

\* C7 (as claimed): sections not named by an update keep their index and
\* value, an update to an existing title lands on that title's index, new
\* titles follow all existing entries in update order, and the result grows
\* only by the number of distinct new titles.
C7_MergeShape ==
    (mpc = "once" /\ Distinct(mExisting)) =>
        /\ \A i \in DOMAIN mExisting :
              IF mExisting[i].title \in TitlesOf(mUpdates)
              THEN mOnce[i] = LastUpdate(mUpdates, mExisting[i].title)
              ELSE mOnce[i] = mExisting[i]
        /\ \A i \in DOMAIN mOnce :
              i > Len(mExisting) =>
                  mOnce[i].title \in NewTitles(mExisting, mUpdates)
        /\ Len(mOnce) =
              Len(mExisting) + Cardinality(NewTitles(mExisting, mUpdates))

\* C8 (as claimed): merging into a sequence of pairwise distinct titles gives
\* a sequence of pairwise distinct titles, whatever the updates are.
C8_MergeKeepsTitlesDistinct ==
    (mpc = "once" /\ Distinct(mExisting)) => Distinct(mOnce)

\* C9: updates with pairwise distinct titles that all exist give the same
\* sections whether merged one at a time in any arrival order or in one call.
C9_ArrivalOrderIrrelevant ==
    (MergeDone /\ Distinct(mUpdates)
        /\ TitlesOf(mUpdates) \subseteq TitlesOf(mExisting)) =>
        mSerial = mOnce

\* C9 witness: two researchers' updates merged into three sections
C9_Witness ==
    /\ MergeDone
    /\ Len(mUpdates) = 2
    /\ Distinct(mUpdates)
    /\ Distinct(mExisting)
    /\ TitlesOf(mUpdates) \subseteq TitlesOf(mExisting)
    /\ mSerial = mOnce
    /\ mSerial # mExisting

\* --------------------------------------------------------- one research run

QueryTypes == {"list", "comparison", "deep_dive", "general"}

\* what a researcher's structured extraction returns
ResearchOutputs == {[content |-> "c1", sources |-> <<"u1", "u2">>]}

\* overall_score values on both sides of the threshold
Scores == {6, 7}

GapLists == {<<>>, <<"g">>}

\* titles a review can name: the real ones and one that matches no section
RetryTitles == Titles \cup {"Nonexistent"}

\* a title that differs from the first real title only by case
LowerCaseTitle == "a"

\* the sections_to_retry lists a review can return
RetryLists == (SUBSET RetryTitles) \cup {{LowerCaseTitle}}

\* the outlines a plan can produce: k sections, k = 0 included; section
\* names are interchangeable, so the k titles are the first k of the pool
Outlines == {[i \in 1..k |-> TitlePool[i]] : k \in 0..MaxSections}

Init ==
    /\ IdleMerge
    /\ IdleClarify
    /\ IdleLoop
    /\ IdleStream
    /\ IdleUse
    /\ IdleChat
    /\ IdleSocket
    /\ phase = "clarify"
    /\ clarifiedQuery = Null
    /\ pendingClarificationQuestion = Null
    /\ clarifyRounds = 0
    /\ queryType = Null
    /\ analysis = NoRecord
    /\ discoveredEntities = <<>>
    /\ sections = <<>>
    /\ reviewIterationCount = 0
    /\ maxReviewIterations \in 1..DefaultMaxReviewIterations
    /\ finalReport = NoRecord
    /\ tasks = <<>>
    /\ roundIndex = 0
    /\ reviewResult = NoRecord
    /\ error = Null

\* mutant: the error is recorded and the run goes on
Fatal_recorded(name) ==
    /\ error' = name
    /\ UNCHANGED <<phase, clarifiedQuery, pendingClarificationQuestion,
                   clarifyRounds, queryType, analysis, discoveredEntities,
                   sections, reviewIterationCount, maxReviewIterations,
                   finalReport, tasks, roundIndex, reviewResult>>

\* a fatal error: the run ends in the error state
Fatal(name) ==
    /\ phase' = "error"
    /\ error' = name
    /\ UNCHANGED <<clarifiedQuery, pendingClarificationQuestion, clarifyRounds,
                   queryType, analysis, discoveredEntities, sections,
                   reviewIterationCount, maxReviewIterations, finalReport,
                   tasks, roundIndex, reviewResult>>

\* mutant: a question once asked is never cleared
PendingAfter_kept(pending, outcome) ==
    IF outcome = "need" \/ pending # Null THEN "question" ELSE Null

\* needs_clarification after a Clarify call: set when the completion asks,
\* cleared otherwise (the answer that resumed the run has cleared it)
PendingAfter(pending, outcome) ==
    IF outcome = "need" THEN "question" ELSE Null

\* mutant: a completion that asks for clarification goes on to Analyze
ClarifyRoute_through(need_clarification) == "analyze"

\* need_clarification = true -> END, waiting for the user's input;
\* need_clarification = false -> analyze
ClarifyRoute(need_clarification) ==
    IF need_clarification THEN "suspended" ELSE "analyze"

\* Clarify's structured completion and what the phase does with it
ClarifyStep(outcome) ==
    CASE outcome = "fail" ->
            /\ phase' = "error"
            /\ error' = "ClarificationFailed"
            /\ pendingClarificationQuestion' =
                    PendingAfter(pendingClarificationQuestion, outcome)
            /\ UNCHANGED <<clarifiedQuery, clarifyRounds, queryType, analysis,
                           discoveredEntities, sections, reviewIterationCount,
                           maxReviewIterations, finalReport, tasks, roundIndex,
                           reviewResult>>
      [] outcome = "need" ->
            /\ clarifyRounds < ClarifyCap
            /\ pendingClarificationQuestion' =
                    PendingAfter(pendingClarificationQuestion, outcome)
            /\ clarifyRounds' = clarifyRounds + 1
            /\ phase' = ClarifyRoute(TRUE)
            /\ UNCHANGED <<clarifiedQuery, queryType, analysis,
                           discoveredEntities, sections, reviewIterationCount,
                           maxReviewIterations, finalReport, tasks, roundIndex,
                           reviewResult, error>>
      [] outcome = "resolved" ->
            /\ clarifiedQuery' = "query"
            /\ pendingClarificationQuestion' =
                    PendingAfter(pendingClarificationQuestion, outcome)
            /\ phase' = ClarifyRoute(FALSE)
            /\ UNCHANGED <<clarifyRounds, queryType, analysis,
                           discoveredEntities, sections, reviewIterationCount,
                           maxReviewIterations, finalReport, tasks, roundIndex,
                           reviewResult, error>>

ClarifyOutcomes == {"fail", "need", "resolved"}

ClarifyPhase ==
    /\ phase = "clarify"
    /\ \E outcome \in ClarifyOutcomes : ClarifyStep(outcome)
    /\ UNCHANGED restOfRun

\* the human answer arrives; Clarify runs again with it
ResumeRun ==
    /\ phase = "suspended"
    /\ \E outcome \in ClarifyOutcomes : ClarifyStep(outcome)
    /\ UNCHANGED restOfRun

\* mutant: Discover is skipped
AnalyzeRoute_skip(qt, nd) == "plan"

\* mutant: every list query is routed to Discover
AnalyzeRoute_listOnly(qt, nd) == IF qt = "list" THEN "discover" ELSE "plan"

\* needs_discovery and query_type = "list" route to Discover
AnalyzeRoute(qt, nd) == IF nd /\ qt = "list" THEN "discover" ELSE "plan"

AnalyzePhase ==
    /\ phase = "analyze"
    /\ \/ Fatal("AnalysisFailed")
       \/ \E qt \in QueryTypes, nd \in BOOLEAN :
            /\ queryType' = qt
            /\ analysis' = [queryType |-> qt, needsDiscovery |-> nd]
            /\ phase' = AnalyzeRoute(qt, nd)
            /\ UNCHANGED <<clarifiedQuery, pendingClarificationQuestion,
                           clarifyRounds, discoveredEntities, sections,
                           reviewIterationCount, maxReviewIterations,
                           finalReport, tasks, roundIndex, reviewResult, error>>
    /\ UNCHANGED restOfRun

\* the discovery loop ends (cap or completion signal) and its extraction
\* writes the entities it found, possibly none
DiscoverPhase ==
    /\ phase = "discover"
    /\ \E entities \in Outlines :
            discoveredEntities' = entities
    /\ phase' = "plan"
    /\ analysis' = NoRecord
    /\ UNCHANGED <<clarifiedQuery, pendingClarificationQuestion, clarifyRounds,
                   queryType, sections, reviewIterationCount,
                   maxReviewIterations, finalReport, tasks, roundIndex,
                   reviewResult, error>>
    /\ UNCHANGED restOfRun

\* ---- PlanAndDispatch

\* a section stub as the outline creates it
Stub(t) == Section(t, <<"about", t>>, "pending", "", <<>>)

Stubs(titles) == [i \in DOMAIN titles |-> Stub(titles[i])]

\* mutant: the outline comes from the discovered entities alone
OutlineTitles_entitiesOnly(entities, llmOutline) == entities

\* one section per discovered entity, else the outline planned from the query
OutlineTitles(entities, llmOutline) ==
    IF entities # <<>> THEN entities ELSE llmOutline

\* mutant: the outline is generated again on every entry
PlannedSections_regenerate(secs, entities, llmOutline) ==
    Stubs(OutlineTitles(entities, llmOutline))

\* idempotence: with sections already there (Review looped back) the outline
\* is not generated again
PlannedSections(secs, entities, llmOutline) ==
    IF secs # <<>> THEN secs ELSE Stubs(OutlineTitles(entities, llmOutline))

\* mutant: every section is dispatched again, whatever its status
PendingTitles_all(secs) == TitlesOf(secs)

\* [... for s in sections if s.status == "pending"]
PendingTitles(secs) ==
    {secs[i].title : i \in {j \in DOMAIN secs : secs[j].status = "pending"}}

MarkResearching(secs, dispatched) ==
    [i \in DOMAIN secs |->
        IF secs[i].title \in dispatched
        THEN [secs[i] EXCEPT !.status = "researching"]
        ELSE secs[i]]

\* Outline generation only when there are no sections yet; then one
\* researcher task per pending section, the sections marked researching
\* through the reducer, and the orchestrator waits at the Aggregate barrier.
PlanAndDispatch ==
    /\ phase = "plan"
    /\ \E llmOutline \in Outlines :
        LET planned == PlannedSections(sections, discoveredEntities, llmOutline)
            dispatched == PendingTitles(planned)
        IN  IF planned = <<>>
            THEN Fatal("PlanningFailed")
            ELSE /\ sections' = section_reducer(sections,
                                    MarkResearching(planned, dispatched))
                 /\ tasks' = [t \in dispatched |-> "running"]
                 /\ roundIndex' = roundIndex + 1
                 /\ phase' = "research"
                 /\ analysis' = NoRecord
                 /\ reviewResult' = NoRecord
                 /\ UNCHANGED <<clarifiedQuery, pendingClarificationQuestion,
                                clarifyRounds, queryType, discoveredEntities,
                                reviewIterationCount, maxReviewIterations,
                                finalReport, error>>
    /\ UNCHANGED restOfRun

\* ---- Researcher (one per dispatched section)

SectionOf(secs, t) == secs[CHOOSE i \in DOMAIN secs : secs[i].title = t]

\* how a researcher task can end: extraction succeeded, the task failed with
\* partial content gathered, or it failed with nothing gathered
ResearchOutcomes ==
    {[kind |-> "ok", content |-> o.content, sources |-> o.sources] :
        o \in ResearchOutputs}
    \cup {[kind |-> "partial", content |-> "partial", sources |-> <<"u2">>],
          [kind |-> "nothing", content |-> "", sources |-> <<>>]}

\* mutant: a researcher that gathered nothing leaves the section as
\* dispatch marked it
ResearcherUpdate_silent(sec, outcome) ==
    IF outcome.kind = "nothing"
    THEN sec
    ELSE [sec EXCEPT !.status = "completed",
                     !.content = outcome.content,
                     !.sources = outcome.sources]

\* the Section a researcher emits as its sole output
ResearcherUpdate(sec, outcome) ==
    IF outcome.kind = "nothing"
    THEN [sec EXCEPT !.status = "pending"]
    ELSE [sec EXCEPT !.status = "completed",
                     !.content = outcome.content,
                     !.sources = outcome.sources]

\* the terminal state of a researcher task
TaskEnd(outcome) == IF outcome.kind = "ok" THEN "done" ELSE "failed"

TerminalStates == {"done", "failed"}

\* a researcher task reaches its terminal state; its update goes through
\* the reducer. A failure is caught: nothing else of the run is touched
Researcher(t) ==
    /\ phase = "research"
    /\ t \in DOMAIN tasks
    /\ tasks[t] = "running"
    /\ \E outcome \in ResearchOutcomes :
            /\ sections' = section_reducer(sections,
                            <<ResearcherUpdate(SectionOf(sections, t), outcome)>>)
            /\ tasks' = [tasks EXCEPT ![t] = TaskEnd(outcome)]
    /\ UNCHANGED <<phase, clarifiedQuery, pendingClarificationQuestion,
                   clarifyRounds, queryType, analysis, discoveredEntities,
                   reviewIterationCount, maxReviewIterations, finalReport,
                   roundIndex, reviewResult, error>>
    /\ UNCHANGED restOfRun

\* ---- Aggregate: the barrier

\* mutant: the first researcher to finish releases the barrier
BarrierReleased_first(tks) ==
    tks = <<>> \/ \E t \in DOMAIN tks : tks[t] \in TerminalStates

\* mutant: the barrier waits for successes only
BarrierReleased_successOnly(tks) ==
    \A t \in DOMAIN tks : tks[t] = "done"

\* the synchronisation point: every parallel researcher has finished
BarrierReleased(tks) ==
    \A t \in DOMAIN tks : tks[t] \in TerminalStates

Aggregate ==
    /\ phase = "research"
    /\ BarrierReleased(tasks)
    /\ tasks' = <<>>
    /\ phase' = "review"
    /\ UNCHANGED <<clarifiedQuery, pendingClarificationQuestion, clarifyRounds,
                   queryType, analysis, discoveredEntities, sections,
                   reviewIterationCount, maxReviewIterations, finalReport,
                   roundIndex, reviewResult, error>>
    /\ UNCHANGED restOfRun

\* ---- Review

\* mutant: the model's own is_sufficient is trusted
IsSufficient_llm(count, max, score, gaps, llm) == llm

\* mutant: no forcing at the iteration cap
IsSufficient_uncapped(count, max, score, gaps, llm) ==
    score >= 7 /\ gaps = <<>>

\* mutant: the cap is compared with > instead of >=
IsSufficient_late(count, max, score, gaps, llm) ==
    IF count > max THEN TRUE ELSE score >= 7 /\ gaps = <<>>

\* the decision rule
IsSufficient(count, max, score, gaps, llm) ==
    IF count >= max THEN TRUE ELSE score >= 7 /\ gaps = <<>>

\* mutant: one increment per title named for retry
NextReviewCount_perTitle(count, retry) == count + Cardinality(retry)

\* mutant: the increment is forgotten
NextReviewCount_stuck(count, retry) == count

\* an insufficient review starts one more Review -> retry cycle
NextReviewCount(count, retry) == count + 1

\* mutant: the two routes are taken the wrong way round
ReviewRoute_swapped(is_sufficient, count, max) ==
    IF is_sufficient THEN "plan" ELSE "report"

\* is_sufficient -> report; not sufficient and below max_review_iterations ->
\* plan (dispatch); max_review_iterations reached -> report
ReviewRoute(is_sufficient, count, max) ==
    IF is_sufficient THEN "report"
    ELSE IF count < max THEN "plan" ELSE "report"

\* upper-case form of a title
Upper(t) == IF t = LowerCaseTitle THEN TitlePool[1] ELSE t

\* mutant: titles are compared without regard to case
RetryResets_caseless(secs, retry) ==
    LET named == SelectSeq(secs,
                    LAMBDA s : \E r \in retry : Upper(r) = Upper(s.title))
    IN [i \in DOMAIN named |-> [named[i] EXCEPT !.status = "pending"]]

\* the sections named for retry, reset to pending, content and sources kept;
\* a title that matches no section names nothing
RetryResets(secs, retry) ==
    LET named == SelectSeq(secs, LAMBDA s : s.title \in retry)
    IN [i \in DOMAIN named |-> [named[i] EXCEPT !.status = "pending"]]

ReviewPhase ==
    /\ phase = "review"
    /\ \E llm \in BOOLEAN, score \in Scores, gaps \in GapLists,
          retry \in RetryLists :
        LET ok == IsSufficient(reviewIterationCount, maxReviewIterations,
                               score, gaps, llm)
            route == ReviewRoute(ok, reviewIterationCount, maxReviewIterations)
        IN  /\ reviewResult' = [isSufficient |-> ok,
                                overallScore |-> score,
                                gaps |-> gaps,
                                sectionsToRetry |-> retry]
            /\ phase' = route
            /\ IF route = "report"
               THEN UNCHANGED <<sections, reviewIterationCount>>
               ELSE /\ sections' = section_reducer(sections,
                                        RetryResets(sections, retry))
                    /\ reviewIterationCount' =
                            NextReviewCount(reviewIterationCount, retry)
    /\ UNCHANGED <<clarifiedQuery, pendingClarificationQuestion, clarifyRounds,
                   queryType, analysis, discoveredEntities,
                   maxReviewIterations, finalReport, tasks, roundIndex, error>>
    /\ UNCHANGED restOfRun

\* ---- Report

RECURSIVE Dedup(_, _)
Dedup(seq, seen) ==
    IF seq = <<>> THEN <<>>
    ELSE IF Head(seq) \in seen THEN Dedup(Tail(seq), seen)
         ELSE <<Head(seq)>> \o Dedup(Tail(seq), seen \cup {Head(seq)})

RECURSIVE AllSources(_)
AllSources(secs) ==
    IF secs = <<>> THEN <<>> ELSE Head(secs).sources \o AllSources(Tail(secs))

\* mutant: the report is followed by another review
ReportRoute_loop == "review"

\* Report --> Final: the run ends with the report
ReportRoute == "done"

ReportPhase ==
    /\ phase = "report"
    /\ finalReport' = [headers |-> TitleSeq(sections),
                       sources |-> Dedup(AllSources(sections), {})]
    /\ phase' = ReportRoute
    /\ reviewResult' = NoRecord
    /\ UNCHANGED <<clarifiedQuery, pendingClarificationQuestion, clarifyRounds,
                   queryType, analysis, discoveredEntities, sections,
                   reviewIterationCount, maxReviewIterations, tasks,
                   roundIndex, error>>
    /\ UNCHANGED restOfRun

Next ==
    \/ ClarifyPhase
    \/ ResumeRun
    \/ AnalyzePhase
    \/ DiscoverPhase
    \/ PlanAndDispatch
    \/ \E t \in Titles : Researcher(t)
    \/ Aggregate
    \/ ReviewPhase
    \/ ReportPhase

Spec == Init /\ [][Next]_vars

\* the orchestrator runs every node that is ready and every researcher task
\* terminates; only the human answer (ResumeRun) may never come
LiveSpec ==
    /\ Spec
    /\ WF_vars(ClarifyPhase)
    /\ WF_vars(AnalyzePhase)
    /\ WF_vars(DiscoverPhase)
    /\ WF_vars(PlanAndDispatch)
    /\ WF_vars(\E t \in Titles : Researcher(t))
    /\ WF_vars(Aggregate)
    /\ WF_vars(ReviewPhase)
    /\ WF_vars(ReportPhase)

\* ------------------------------------------------- properties of one run

\* C1: a Review that runs with reviewIterationCount >= maxReviewIterations
\* reports isSufficient = TRUE and the run goes on to Report, whatever score
\* and gaps the completion returned.
C1_ForcedSufficientAtCap ==
    [][(phase = "review" /\ reviewIterationCount >= maxReviewIterations) =>
            (reviewResult'.isSufficient /\ phase' = "report")]_vars

\* C1 witness: at the cap, a low score with gaps was turned into sufficient
C1_Witness ==
    /\ phase = "report"
    /\ reviewResult # NoRecord
    /\ reviewIterationCount = maxReviewIterations
    /\ reviewResult.overallScore < 7
    /\ reviewResult.gaps # <<>>
    /\ reviewResult.isSufficient

\* C2: reviewIterationCount stays between 0 and maxReviewIterations.
C2_CountWithinCap ==
    /\ reviewIterationCount >= 0
    /\ reviewIterationCount <= maxReviewIterations

\* C2 witness: the count has reached the cap and Review is about to run
C2_Witness ==
    /\ phase = "review"
    /\ maxReviewIterations = DefaultMaxReviewIterations
    /\ reviewIterationCount = maxReviewIterations

\* C3: below the cap, isSufficient is exactly (overallScore >= 7 and no
\* gaps); a sufficient review goes to Report, any other back to
\* PlanAndDispatch.
C3_SufficiencyRule ==
    [][(phase = "review" /\ reviewIterationCount < maxReviewIterations) =>
            /\ reviewResult'.isSufficient =
                  (reviewResult'.overallScore >= 7 /\ reviewResult'.gaps = <<>>)
            /\ phase' = IF reviewResult'.isSufficient THEN "report" ELSE "plan"]_vars

\* C3 witness: a score of 7 with a gap left is not sufficient and loops back
C3_Witness ==
    /\ phase = "plan"
    /\ reviewResult # NoRecord
    /\ reviewResult.overallScore >= 7
    /\ reviewResult.gaps # <<>>
    /\ ~reviewResult.isSufficient

\* C4: a Review that is not sufficient adds exactly 1 to
\* reviewIterationCount, however many titles it names for retry; a
\* sufficient one leaves the count as it is.
C4_OneIncrementPerRetryCycle ==
    [][phase = "review" =>
            reviewIterationCount' =
                IF reviewResult'.isSufficient
                THEN reviewIterationCount
                ELSE reviewIterationCount + 1]_vars

\* C4 witness: one insufficient review named two real sections and one that
\* does not exist, and the count is 1
C4_Witness ==
    /\ phase = "plan"
    /\ reviewResult # NoRecord
    /\ ~reviewResult.isSufficient
    /\ Cardinality(reviewResult.sectionsToRetry) = 3
    /\ "Nonexistent" \in reviewResult.sectionsToRetry
    /\ reviewIterationCount = 1

\* C5: once clarification is resolved the run ends with finalReport set (or
\* with a fatal error), and never starts more than maxReviewIterations + 1
\* dispatch rounds.
C5_RunTerminates ==
    /\ [](roundIndex <= maxReviewIterations + 1)
    /\ (clarifiedQuery # Null) ~> (finalReport # NoRecord \/ phase = "error")

\* C5 witness: with maxReviewIterations = 2 the report is written after
\* three dispatch rounds (two real reviews, then the forced one)
C5_Witness ==
    /\ phase = "done"
    /\ finalReport # NoRecord
    /\ maxReviewIterations = DefaultMaxReviewIterations
    /\ roundIndex = maxReviewIterations + 1
    /\ \A i \in DOMAIN sections : sections[i].status = "completed"

NamedExisting(secs, retry) == TitlesOf(secs) \cap retry

\* C11: PlanAndDispatch entered with sections already there generates no
\* outline: the title sequence and every description are the same after as
\* before, no title is added or duplicated. The outline is generated at most
\* once per run: once sections exist, no step changes titles or descriptions.
C11_PlanIdempotent ==
    /\ [][(phase = "plan" /\ sections # <<>>) =>
            /\ phase' = "research"
            /\ TitleSeq(sections') = TitleSeq(sections)
            /\ \A i \in DOMAIN sections :
                    sections'[i].description = sections[i].description
            /\ Distinct(sections')]_vars
    /\ [][sections # <<>> =>
            /\ TitleSeq(sections') = TitleSeq(sections)
            /\ \A i \in DOMAIN sections :
                    sections'[i].description = sections[i].description]_vars

\* C11 witness: the second dispatch of a run, on the outline of the first
C11_Witness ==
    /\ phase = "research"
    /\ roundIndex = 2
    /\ Len(sections) = MaxSections
    /\ \E t \in DOMAIN tasks : tasks[t] = "running"

\* the effect of an insufficient review on the sections: the named ones are
\* pending with content and sources kept, the others are as they were
RetryFrame ==
    [][(phase = "review" /\ phase' = "plan") =>
            /\ ~reviewResult'.isSufficient
            /\ Len(sections') = Len(sections)
            /\ \A i \in DOMAIN sections :
                    sections'[i] =
                        IF sections[i].title \in reviewResult'.sectionsToRetry
                        THEN [sections[i] EXCEPT !.status = "pending"]
                        ELSE sections[i]]_vars

C13_UnknownRetryTitleIgnored ==
    [][(phase = "review" /\ ~reviewResult'.isSufficient
            /\ NamedExisting(sections, reviewResult'.sectionsToRetry) = {}) =>
            /\ sections' = sections
            /\ error' = Null
            /\ phase' \in {"plan", "report"}]_vars

\* C13 witness: the review named only the lower-case form of a title; the
\* run is back in PlanAndDispatch with every section still completed
C13_Witness ==
    /\ phase = "plan"
    /\ reviewResult # NoRecord
    /\ ~reviewResult.isSufficient
    /\ reviewResult.sectionsToRetry = {LowerCaseTitle}
    /\ Len(sections) = MaxSections
    /\ \A i \in DOMAIN sections : sections[i].status = "completed"
    /\ error = Null

\* the status of the section titled t, "absent" when there is none
StatusOf(secs, t) ==
    IF t \in TitlesOf(secs) THEN SectionOf(secs, t).status ELSE "absent"

\* the status changes of one step, as <<before, after>> pairs
StatusChanges ==
    {<<StatusOf(sections, t), StatusOf(sections', t)>> : t \in TitlesOf(sections)}
        \ {<<st, st>> : st \in {"pending", "researching", "completed"}}

C16_BarrierBeforeReview ==
    /\ [][(phase = "research" /\ phase' # "research") =>
            /\ phase' = "review"
            /\ \A t \in DOMAIN tasks :
                    /\ tasks[t] \in TerminalStates
                    /\ StatusOf(sections, t) # "researching"
                    /\ StatusOf(sections', t) = StatusOf(sections, t)]_vars
    /\ []((\E t \in DOMAIN tasks : tasks[t] = "running") => phase = "research")
    /\ [][roundIndex' # roundIndex =>
            \A t \in DOMAIN tasks : tasks[t] # "running"]_vars

\* C16 witness: the review of the second round starts, after a first round
\* of MaxSections parallel researchers
C16_Witness ==
    /\ phase = "review"
    /\ roundIndex = 2
    /\ Len(sections) = MaxSections
    /\ tasks = <<>>
    /\ \A i \in DOMAIN sections : sections[i].status = "completed"

\* C17: when one researcher task fails, its siblings are not touched and the
\* run stays in the research phase without an error; every sibling reaches a
\* terminal state, the barrier is released and the run gets to Review.
C17_FailureIsolated ==
    /\ [][\A t \in DOMAIN tasks :
            (phase = "research" /\ tasks[t] = "running" /\ tasks'[t] = "failed") =>
                /\ phase' = "research"
                /\ error' = Null
                /\ \A u \in DOMAIN tasks \ {t} :
                        /\ tasks'[u] = tasks[u]
                        /\ SectionOf(sections', u) = SectionOf(sections, u)]_vars
    /\ [][(phase = "research" /\ phase' = "review") =>
            /\ error' = Null
            /\ \A t \in DOMAIN tasks : tasks[t] \in TerminalStates]_vars
    /\ (phase = "research" /\ \E t \in DOMAIN tasks : tasks[t] = "failed")
            ~> (phase = "review" /\ error = Null)

\* C17 witness: Review starts after a round in which the researcher of the
\* first section failed with partial content and its sibling succeeded
C17_Witness ==
    /\ phase = "review"
    /\ error = Null
    /\ roundIndex = 1
    /\ Len(sections) = 2
    /\ sections[1].content = "partial"
    /\ sections[2].status = "completed"
    /\ sections[2].content = "c1"

\* what a researcher step leaves alone: the titles and their order, every
\* section but its own, the description of its own, and every other field
\* of the workflow state
ResearcherFrame(t) ==
    /\ TitleSeq(sections') = TitleSeq(sections)
    /\ \A i \in DOMAIN sections :
            IF sections[i].title = t
            THEN sections'[i].description = sections[i].description
            ELSE sections'[i] = sections[i]
    /\ UNCHANGED <<phase, clarifiedQuery, pendingClarificationQuestion,
                   clarifyRounds, queryType, analysis, discoveredEntities,
                   reviewIterationCount, maxReviewIterations, finalReport,
                   reviewResult, error>>

C19_ReportIsFinal ==
    /\ [][finalReport' # finalReport =>
            /\ finalReport = NoRecord
            /\ phase = "report"]_vars
    /\ [][finalReport # NoRecord => UNCHANGED wfVars]_vars
    /\ [](finalReport # NoRecord => ~ENABLED Next)

\* C19 witness: the run has ended with a report over both sections
C19_Witness ==
    /\ phase = "done"
    /\ finalReport # NoRecord
    /\ finalReport.headers = <<"A", "B">>
    /\ finalReport.sources = <<"u1", "u2">>
    /\ reviewIterationCount = 1

\* C20: after Analyze, Discover runs exactly when needsDiscovery holds and
\* queryType is list; otherwise the run goes straight to PlanAndDispatch and
\* discoveredEntities stays empty.
C20_DiscoverIffListNeedingDiscovery ==
    /\ [][(phase = "analyze" /\ phase' # "error") =>
            /\ analysis' # NoRecord
            /\ queryType' = analysis'.queryType
            /\ phase' = IF analysis'.needsDiscovery /\ queryType' = "list"
                        THEN "discover" ELSE "plan"]_vars
    /\ [][phase' = "discover" => phase = "analyze"]_vars
    /\ [][discoveredEntities' # discoveredEntities => phase = "discover"]_vars
    /\ [](queryType # "list" => discoveredEntities = <<>>)

\* C20 witness: a list query that needs no discovery is in PlanAndDispatch
\* straight after Analyze, with no discovered entity
C20_Witness ==
    /\ phase = "plan"
    /\ analysis # NoRecord
    /\ analysis.queryType = "list"
    /\ ~analysis.needsDiscovery
    /\ discoveredEntities = <<>>
    /\ sections = <<>>

\* C21: when discovery is chosen, PlanAndDispatch does not start until
\* DiscoverPhase has finished and written discoveredEntities: a run that
\* chose discovery leaves Analyze for Discover, Discover is left only for
\* PlanAndDispatch, in the step that writes discoveredEntities, and sections
\* is empty up to then.
C21_DiscoverBeforePlan ==
    /\ [][(phase = "analyze" /\ analysis' # NoRecord
                /\ analysis'.needsDiscovery /\ analysis'.queryType = "list") =>
            phase' = "discover"]_vars
    /\ [](phase = "discover" =>
            /\ sections = <<>>
            /\ tasks = <<>>
            /\ roundIndex = 0
            /\ discoveredEntities = <<>>)
    /\ [][phase = "discover" =>
            /\ phase' = "plan"
            /\ sections' = <<>>
            /\ discoveredEntities' \in Outlines]_vars
    /\ [][(phase = "plan" /\ analysis # NoRecord /\ sections' # sections) =>
            ~(analysis.needsDiscovery /\ analysis.queryType = "list")]_vars

\* C21 witness: Discover has written two entities and PlanAndDispatch is
\* about to plan, with no section yet
C21_Witness ==
    /\ phase = "plan"
    /\ queryType = "list"
    /\ analysis = NoRecord
    /\ Len(discoveredEntities) = 2
    /\ sections = <<>>
    /\ roundIndex = 0

\* PlanAndDispatch is about to plan after a discovery that found no entity
ZeroEntitiesPlan ==
    /\ phase = "plan"
    /\ sections = <<>>
    /\ analysis = NoRecord
    /\ queryType = "list"
    /\ discoveredEntities = <<>>

FatalOf(ph) ==
    CASE ph \in {"clarify", "suspended"} -> "ClarificationFailed"
      [] ph = "analyze" -> "AnalysisFailed"
      [] ph = "plan" -> "PlanningFailed"
      [] OTHER -> Null

\* C23: a fatal error ends the run in the error state: no phase runs after
\* it and finalReport stays null; a Clarify failure never reaches Analyze, an
\* Analyze failure never plans, zero sections never dispatch a researcher.
C23_FatalEndsRun ==
    /\ [](error # Null =>
            /\ phase = "error"
            /\ finalReport = NoRecord
            /\ ~ENABLED Next)
    /\ [](error = "ClarificationFailed" =>
            clarifiedQuery = Null /\ queryType = Null /\ sections = <<>>)
    /\ [](error = "AnalysisFailed" =>
            queryType = Null /\ sections = <<>> /\ roundIndex = 0)
    /\ [](error = "PlanningFailed" =>
            sections = <<>> /\ tasks = <<>> /\ roundIndex = 0)
    /\ [][error' # error => (error = Null /\ error' = FatalOf(phase))]_vars

\* C23 witness: planning yielded zero sections after Clarify and Analyze
\* had succeeded
C23_Witness ==
    /\ phase = "error"
    /\ error = "PlanningFailed"
    /\ clarifiedQuery # Null
    /\ queryType # Null
    /\ sections = <<>>

\* C24: pendingClarificationQuestion is non-null exactly while the run is
\* suspended for the human answer, never together with a clarifiedQuery;
\* while it is non-null sections is empty and Analyze has not run;
\* resolving sets clarifiedQuery and clears it.
C24_PendingQuestionWhileSuspended ==
    /\ [](pendingClarificationQuestion # Null <=> phase = "suspended")
    /\ [](~(pendingClarificationQuestion # Null /\ clarifiedQuery # Null))
    /\ [](pendingClarificationQuestion # Null =>
            sections = <<>> /\ queryType = Null /\ analysis = NoRecord)
    /\ [][clarifiedQuery' # clarifiedQuery =>
            /\ clarifiedQuery = Null
            /\ clarifiedQuery' # Null
            /\ pendingClarificationQuestion' = Null]_vars

\* C24 witness: the answer to a question resolved the query and the
\* question is cleared
C24_Witness ==
    /\ phase = "analyze"
    /\ clarifyRounds = 1
    /\ clarifiedQuery # Null
    /\ pendingClarificationQuestion = Null

\* ------------------------------------------- the clarification dialogue

\* what the user can answer: "start the research directly" (skip the
\* clarification) or something else
Answers == {"start", "detail", "vague"}

\* what a Clarify completion can return, given the answers so far: after
\* "start" it does not ask again
ClarifyCompletions(messages) ==
    IF messages # <<>> /\ messages[Len(messages)] = "start"
    THEN {"fail", "resolved"}
    ELSE {"fail", "need", "resolved"}

InitClarify ==
    /\ IdleWorkflow
    /\ IdleMerge
    /\ IdleLoop
    /\ IdleStream
    /\ IdleUse
    /\ IdleChat
    /\ IdleSocket
    /\ dpc = "clarify"
    /\ dMessages = <<>>
    /\ dNeeds = FALSE
    /\ dRounds = 0

\* the Clarify node runs on the messages so far and routes on its completion
DialogueClarify ==
    /\ dpc = "clarify"
    /\ \E outcome \in ClarifyCompletions(dMessages) :
        CASE outcome = "fail" ->
                /\ dpc' = "error"
                /\ UNCHANGED <<dNeeds, dRounds>>
          [] outcome = "need" ->
                /\ Len(dMessages) < DialogueBound
                /\ dNeeds' = TRUE
                /\ dRounds' = dRounds + 1
                /\ dpc' = ClarifyRoute(TRUE)
          [] outcome = "resolved" ->
                /\ dpc' = ClarifyRoute(FALSE)
                /\ UNCHANGED <<dNeeds, dRounds>>
    /\ UNCHANGED <<dMessages, restOfClarify>>

\* the user answers: the answer is appended, needs_clarification is cleared
\* and Clarify runs again
DialogueAnswer(a) ==
    /\ dpc = "suspended"
    /\ dNeeds
    /\ dMessages' = Append(dMessages, a)
    /\ dNeeds' = FALSE
    /\ dpc' = "clarify"
    /\ UNCHANGED <<dRounds, restOfClarify>>

NextClarify ==
    \/ DialogueClarify
    \/ \E a \in Answers : DialogueAnswer(a)

SpecClarify == InitClarify /\ [][NextClarify]_vars

\* C25: the clarification loop is bounded: once the soft cap of rounds is
\* exceeded the next answer is final, so Clarify asks at most one question
\* more than the soft cap, whatever the user answers.
C25_ClarifyBounded == dRounds <= SoftCapRounds + 1

\* -------------------------- the tool loop of Discover and the Researchers

\* what a model turn can be: the completion call fails, the completion
\* signal tool is invoked, no tool call is requested, or tool calls are
TurnKinds == {"error", "signal", "none", "calls"}

\* how a tool call can end
ToolOutcomes == {"ok", "error", "timeout"}

\* the tool-result message appended for a call: a time-out is an error
ToolMessage(outcome) == IF outcome = "ok" THEN "result" ELSE "error"

\* mutant: the cap is compared with > instead of >=
ForcedFinalize_late(iter, max) == iter > max

\* the cap is reached: finalize is forced
ForcedFinalize(iter, max) == iter >= max

\* mutant: the turn waits for successful calls only
TurnComplete_successOnly(calls) ==
    \A i \in DOMAIN calls : calls[i] = "result"

\* every tool call of the turn has ended
TurnComplete(calls) ==
    \A i \in DOMAIN calls : calls[i] # "running"

InitLoop ==
    /\ IdleWorkflow
    /\ IdleMerge
    /\ IdleClarify
    /\ IdleStream
    /\ IdleUse
    /\ IdleChat
    /\ IdleSocket
    /\ lpc = "invoke"
    /\ lIter = 0
    /\ lMax \in {1, DefaultMaxDiscoverIterations, DefaultMaxToolCalls}
    /\ lCalls = <<>>
    /\ lResults = 0
    /\ lErrors = 0
    /\ lStop = Null

\* Invoke: the cap forces Finalize; else the model takes its turn
LoopInvoke ==
    /\ lpc = "invoke"
    /\ IF ForcedFinalize(lIter, lMax)
       THEN /\ lpc' = "finalize"
            /\ lStop' = "cap"
            /\ UNCHANGED lCalls
       ELSE \E turn \in TurnKinds :
            CASE turn = "error" ->
                    /\ lpc' = "failed"
                    /\ lStop' = "runner_error"
                    /\ UNCHANGED lCalls
              [] turn = "signal" ->
                    /\ lpc' = "finalize"
                    /\ lStop' = "signal"
                    /\ UNCHANGED lCalls
              [] turn = "none" ->
                    /\ lpc' = "finalize"
                    /\ lStop' = "no_calls"
                    /\ UNCHANGED lCalls
              [] turn = "calls" ->
                    /\ lpc' = "tools"
                    /\ \E k \in 1..MaxCallsPerTurn :
                            lCalls' = [i \in 1..k |-> "running"]
                    /\ UNCHANGED lStop
    /\ UNCHANGED <<lIter, lMax, lResults, lErrors, restOfLoop>>

\* ToolExecution: one of the concurrent calls ends; its result, or its
\* error, is appended to the history
ToolFinish(i) ==
    /\ lpc = "tools"
    /\ i \in DOMAIN lCalls
    /\ lCalls[i] = "running"
    /\ \E outcome \in ToolOutcomes :
            /\ lCalls' = [lCalls EXCEPT ![i] = ToolMessage(outcome)]
            /\ lErrors' = lErrors + (IF ToolMessage(outcome) = "error" THEN 1 ELSE 0)
    /\ lResults' = lResults + 1
    /\ UNCHANGED <<lpc, lIter, lMax, lStop, restOfLoop>>

\* the turn's calls have all ended: one iteration is counted and the model
\* is invoked again
ToolsDone ==
    /\ lpc = "tools"
    /\ TurnComplete(lCalls)
    /\ lIter' = lIter + 1
    /\ lCalls' = <<>>
    /\ lpc' = "invoke"
    /\ UNCHANGED <<lMax, lResults, lErrors, lStop, restOfLoop>>

NextLoop ==
    \/ LoopInvoke
    \/ \E i \in 1..MaxCallsPerTurn : ToolFinish(i)
    \/ ToolsDone

SpecLoop == InitLoop /\ [][NextLoop]_vars

LiveLoop ==
    /\ SpecLoop
    /\ WF_vars(LoopInvoke)
    /\ WF_vars(\E i \in 1..MaxCallsPerTurn : ToolFinish(i))
    /\ WF_vars(ToolsDone)

\* Finalize is entered for one of the three reasons, the cap exactly when
\* iterationCount has reached maxIterations, and the count stays within it
LoopStops ==
    /\ [](lIter <= lMax)
    /\ [][(lpc = "invoke" /\ lpc' = "finalize") =>
            /\ lStop' \in {"signal", "cap", "no_calls"}
            /\ lStop' = "cap" <=> lIter >= lMax]_vars
    /\ [][(lpc = "invoke" /\ lIter >= lMax) => lpc' = "finalize"]_vars
    /\ [][(lpc \in {"finalize", "failed"}) => UNCHANGED lVars]_vars

\* C26 as stated: every execution of the loop reaches Finalize, at the
\* first of the completion signal, the cap and a turn without tool calls;
\* iterationCount never exceeds maxIterations.
C26_AlwaysFinalizes ==
    /\ LoopStops
    /\ [](lpc # "failed")
    /\ (lpc = "invoke") ~> (lpc = "finalize")

\* C26, amended: every execution of the loop ends: at Finalize, at the first
\* of the three, or with a runner-level error when a completion call fails;
\* iterationCount never exceeds maxIterations, also when every tool call
\* fails.
C26_LoopEnds ==
    /\ LoopStops
    /\ [][lpc' = "failed" => (lpc = "invoke" /\ lStop' = "runner_error")]_vars
    /\ (lpc = "invoke") ~> (lpc \in {"finalize", "failed"})

\* C26 witness: a Researcher's loop was forced to finalize at the default
\* cap after a run in which every tool call failed
C26_Witness ==
    /\ lpc = "finalize"
    /\ lStop = "cap"
    /\ lMax = DefaultMaxToolCalls
    /\ lIter = lMax
    /\ lResults >= lMax
    /\ lErrors = lResults

\* C27: a failing or timed-out tool call ends neither the loop nor the task:
\* its error is appended to the history as a tool-result message, the other
\* calls of the turn are not touched and still end, and the loop goes on to
\* the next Invoke.
C27_ToolErrorNotFatal ==
    /\ [][\A i \in DOMAIN lCalls :
            (lpc = "tools" /\ lCalls[i] = "running" /\ lCalls'[i] = "error") =>
                /\ lpc' = "tools"
                /\ lResults' = lResults + 1
                /\ lErrors' = lErrors + 1
                /\ lStop' = lStop
                /\ lIter' = lIter
                /\ \A j \in DOMAIN lCalls \ {i} : lCalls'[j] = lCalls[j]]_vars
    /\ [][(lpc = "tools" /\ lpc' # "tools") =>
            /\ lpc' = "invoke"
            /\ \A i \in DOMAIN lCalls : lCalls[i] \in {"result", "error"}]_vars
    /\ (lpc = "tools" /\ \E i \in DOMAIN lCalls : lCalls[i] = "error")
            ~> (lpc = "invoke")

\* C27 witness: after a turn of two calls, one failed and one succeeded, the
\* model is invoked again
C27_Witness ==
    /\ lpc = "invoke"
    /\ lIter = 1
    /\ lIter < lMax
    /\ lResults = 2
    /\ lErrors = 1

\* ------------------------------------------ streamChat (web-ui/lib/stream.ts)

\* A body is a sequence of characters. "n" is the newline, "s" a space,
\* "v" the no-break space U+00A0 (white space for trim(), not for JSON),
\* "j", "k" and "u" stand for the text of a complete JSON event each (a
\* token event, a message_complete event, an event of a type the switch
\* has no case for), "x" for text that is no JSON.
Chars == {"n", "s", "v", "j", "k", "u", "x"}

Bodies == UNION {[1..len -> Chars] : len \in 0..MaxBody}

\* String.prototype.trim() removes white space and line terminators
TrimSpace == {"n", "s", "v"}

\* the white space JSON.parse accepts around a value
JSONSpace == {"n", "s"}

RECURSIVE StripLeft(_, _)
StripLeft(str, space) ==
    IF str # <<>> /\ Head(str) \in space THEN StripLeft(Tail(str), space)
    ELSE str

RECURSIVE StripRight(_, _)
StripRight(str, space) ==
    IF str # <<>> /\ str[Len(str)] \in space
    THEN StripRight(SubSeq(str, 1, Len(str) - 1), space)
    ELSE str

\* str.trim()
Trim(str) == StripRight(StripLeft(str, TrimSpace), TrimSpace)

\* JSON.parse(str): the event, or "SyntaxError" when it throws
JSONParse(str) ==
    LET value == StripRight(StripLeft(str, JSONSpace), JSONSpace)
    IN IF value \in {<<"j">>, <<"k">>, <<"u">>} THEN value[1]
       ELSE "SyntaxError"

\* str.split('\n')
RECURSIVE Split(_, _)
Split(str, current) ==
    IF str = <<>> THEN <<current>>
    ELSE IF Head(str) = "n" THEN <<current>> \o Split(Tail(str), <<>>)
         ELSE Split(Tail(str), Append(current, Head(str)))

\* handleStreamEvent: the handler calls the event's type selects
HandlerOf(event) ==
    CASE event = "j" -> <<"onToken">>
      [] event = "k" -> <<"onComplete">>
      [] OTHER -> <<>>

\* the for loop over the complete lines: a non-blank line is parsed and
\* its event handled; a line that fails to parse is logged and skipped
RECURSIVE ProcessLines(_, _)
ProcessLines(lines, dispatched) ==
    IF lines = <<>> THEN dispatched
    ELSE LET line == Head(lines) IN
         IF Trim(line) # <<>> /\ JSONParse(line) # "SyntaxError"
         THEN ProcessLines(Tail(lines),
                           dispatched \o HandlerOf(JSONParse(line)))
         ELSE ProcessLines(Tail(lines), dispatched)

\* the done branch: what is left in the buffer is trimmed and parsed
ProcessFinal(buffer, dispatched) ==
    IF Trim(buffer) # <<>> /\ JSONParse(Trim(buffer)) # "SyntaxError"
    THEN dispatched \o HandlerOf(JSONParse(Trim(buffer)))
    ELSE dispatched

InitStream ==
    /\ IdleWorkflow
    /\ IdleMerge
    /\ IdleClarify
    /\ IdleLoop
    /\ IdleUse
    /\ IdleChat
    /\ IdleSocket
    /\ spc = "reading"
    /\ sInput \in Bodies
    /\ sRest = sInput
    /\ sBuffer = <<>>
    /\ sDispatched = <<>>

\* reader.read() returns a chunk of k characters
ReadChunk(k) ==
    /\ spc = "reading"
    /\ k \in 1..Len(sRest)
    /\ LET lines == Split(sBuffer \o SubSeq(sRest, 1, k), <<>>)
       IN  /\ sBuffer' = lines[Len(lines)]
           /\ sDispatched' =
                ProcessLines(SubSeq(lines, 1, Len(lines) - 1), sDispatched)
    /\ sRest' = SubSeq(sRest, k + 1, Len(sRest))
    /\ UNCHANGED <<spc, sInput, restOfStream>>

\* reader.read() returns done
ReadDone ==
    /\ spc = "reading"
    /\ sRest = <<>>
    /\ sDispatched' = ProcessFinal(sBuffer, sDispatched)
    /\ spc' = "done"
    /\ UNCHANGED <<sInput, sRest, sBuffer, restOfStream>>

NextStream ==
    \/ \E k \in 1..MaxBody : ReadChunk(k)
    \/ ReadDone

SpecStream == InitStream /\ [][NextStream]_vars

\* the handler calls of the non-blank lines of a body that parse as JSON,
\* in the order of the lines
RECURSIVE CallsOf(_)
CallsOf(lines) ==
    IF lines = <<>> THEN <<>>
    ELSE LET line == Head(lines) IN
         IF Trim(line) # <<>> /\ JSONParse(line) # "SyntaxError"
         THEN HandlerOf(JSONParse(line)) \o CallsOf(Tail(lines))
         ELSE CallsOf(Tail(lines))

ExpectedCalls(str) == CallsOf(Split(str, <<>>))

\* C28: for every body and every way of splitting it into chunks, the
\* handlers are called for exactly the non-blank lines that parse as JSON,
\* once each and in stream order, a trailing line without newline included.
C28_DispatchExactlyParsedLines ==
    spc = "done" => sDispatched = ExpectedCalls(sInput)

\* ------------------------------------- useStream (web-ui/hooks/useWebSocket.ts)

\* A request is the streamChat call of one sendMessage, named by its
\* position in uReqs; its AbortController carries the same name. uAborted
\* holds the controllers whose abort() was called, uRef is
\* abortControllerRef.current: the empty set for null, else the set of
\* the one controller it refers to.
RequestStates == {"inflight", "completed", "closed", "failed", "stopped"}

\* abortControllerRef.current?.abort(), nothing aborted
Abort_none(ref, aborted) == aborted

\* abortControllerRef.current?.abort()
Abort(ref, aborted) == aborted \cup ref

\* the requests whose fetch is neither settled nor aborted
Live == {id \in DOMAIN uReqs : uReqs[id] = "inflight" /\ id \notin uAborted}

\* isStreaming: status === 'streaming'
isStreaming == uStatus = "streaming"

InitUse ==
    /\ IdleWorkflow
    /\ IdleMerge
    /\ IdleClarify
    /\ IdleLoop
    /\ IdleStream
    /\ IdleChat
    /\ IdleSocket
    /\ uStatus = "idle"
    /\ uError = Null
    /\ uRef = {}
    /\ uReqs = <<>>
    /\ uAborted = {}

\* sendMessage up to its await: the previous controller is aborted, a new
\* one installed, the state set and streamChat started
sendMessage ==
    /\ Len(uReqs) < MaxRequests
    /\ uAborted' = Abort(uRef, uAborted)
    /\ uRef' = {Len(uReqs) + 1}
    /\ uStatus' = "streaming"
    /\ uError' = Null
    /\ uReqs' = Append(uReqs, "inflight")
    /\ UNCHANGED restOfUse

\* config.onComplete: the message_complete event that ends a response
onComplete(id) ==
    /\ id \in Live
    /\ uStatus' = "idle"
    /\ uReqs' = [uReqs EXCEPT ![id] = "completed"]
    /\ UNCHANGED <<uError, uRef, uAborted, restOfUse>>

\* config.onError on an error event, or the catch block on an exception
\* that is no AbortError: both set the error and the status
onError(id) ==
    /\ id \in Live
    /\ uError' = "message"
    /\ uStatus' = "error"
    /\ uReqs' = [uReqs EXCEPT ![id] = "failed"]
    /\ UNCHANGED <<uRef, uAborted, restOfUse>>

\* the body ends without a message_complete or error event: the read loop
\* breaks, streamChat resolves and sendMessage returns
streamEnds(id) ==
    /\ id \in Live
    /\ uReqs' = [uReqs EXCEPT ![id] = "closed"]
    /\ UNCHANGED <<uStatus, uError, uRef, uAborted, restOfUse>>

\* the catch block of the sendMessage call whose request was aborted
catchAbortError(id) ==
    /\ id \in DOMAIN uReqs
    /\ uReqs[id] = "inflight"
    /\ id \in uAborted
    /\ uStatus' = "idle"
    /\ uReqs' = [uReqs EXCEPT ![id] = "stopped"]
    /\ UNCHANGED <<uError, uRef, uAborted, restOfUse>>

stopStream ==
    /\ uAborted' = Abort(uRef, uAborted)
    /\ uRef' = {}
    /\ uStatus' = "idle"
    /\ UNCHANGED <<uError, uReqs, restOfUse>>

NextUse ==
    \/ sendMessage
    \/ \E id \in 1..MaxRequests : onComplete(id)
    \/ \E id \in 1..MaxRequests : onError(id)
    \/ \E id \in 1..MaxRequests : streamEnds(id)
    \/ \E id \in 1..MaxRequests : catchAbortError(id)
    \/ stopStream

SpecUse == InitUse /\ [][NextUse]_vars

\* C29: sendMessage aborts the request of the previous sendMessage before
\* it issues its own and stopStream aborts the current one, so at no time
\* are there two stream requests that have not been aborted.
C29_OneLiveRequest ==
    /\ [](Cardinality(Live) <= 1 /\ Live \subseteq uRef)
    /\ [][/\ uRef' # uRef => uRef \subseteq uAborted'
          /\ uAborted \subseteq uAborted']_vars

\* a second sendMessage has aborted the first request, which has not
\* handled its abort yet, and the second request is in flight
C29_Witness ==
    /\ Len(uReqs) >= 2
    /\ uReqs[1] = "inflight"
    /\ 1 \in uAborted
    /\ Live = {2}

\* C30: while a request that is neither completed, failed nor stopped is
\* in flight, status is 'streaming' and isStreaming is true, also after
\* the abort handling of a request it replaced has run.
C30_StreamingWhileInFlight ==
    Live # {} => uStatus = "streaming" /\ isStreaming

\* the request of the newest sendMessage has ended: its stream closed, it
\* failed, or it was aborted
NewestEnded ==
    /\ uReqs # <<>>
    /\ \/ uReqs[Len(uReqs)] # "inflight"
       \/ Len(uReqs) \in uAborted

\* C31: once the request of the newest sendMessage has ended, status is
\* 'idle' or 'error' and not 'streaming', also when the server closed the
\* stream without a message_complete or error event.
C31_NotStreamingAfterEnd ==
    NewestEnded => uStatus \in {"idle", "error"}

\* ---------------------------------- useChatStore (web-ui/hooks/useWebSocket.ts)

\* Text is a sequence of pieces: "t" a token, "h" a piece of thinking, "q"
\* a clarification question, "b" a formatted brief, "nn" the separator
\* '\n\n', "u" what the user typed.
ToolIds == {"tc1", "tc2"}

\* the ToolCall values of tool_call_start and tool_call_end events
ToolCallValues == [id : ToolIds, status : {"running", "completed"}]

\* finishStreaming's options?.isClarification
FinishOptions == {"undefined", "true", "false"}

TextSegment(content) ==
    [type |-> "text", content |-> content, toolCalls |-> <<>>]

ToolCallsSegment(toolCalls) ==
    [type |-> "tool_calls", content |-> <<>>, toolCalls |-> toolCalls]

\* segments[segments.length - 1] of a non-empty array
LastSegment(segments) == segments[Len(segments)]

\* lastSegment.toolCalls.every(tc => tc.status === 'running'), any call
AllRunning_any(toolCalls) ==
    \E i \in DOMAIN toolCalls : toolCalls[i].status = "running"

\* lastSegment.toolCalls.every(tc => tc.status === 'running')
AllRunning(toolCalls) ==
    \A i \in DOMAIN toolCalls : toolCalls[i].status = "running"

\* appendToken's segments
TokenSegments(segments, content) ==
    IF segments = <<>> \/ LastSegment(segments).type = "tool_calls"
    THEN Append(segments, TextSegment(content))
    ELSE [segments EXCEPT ![Len(segments)].content = @ \o content]

\* addToolCallStart's segments
StartSegments(segments, toolCall) ==
    IF segments # <<>> /\ LastSegment(segments).type = "tool_calls"
    THEN IF AllRunning(LastSegment(segments).toolCalls)
         THEN [segments EXCEPT ![Len(segments)].toolCalls = Append(@, toolCall)]
         ELSE Append(segments, ToolCallsSegment(<<toolCall>>))
    ELSE Append(segments, ToolCallsSegment(<<toolCall>>))

\* toolCalls.map(tc => tc.id === toolCall.id ? toolCall : tc)
UpdatedToolCalls(toolCalls, toolCall) ==
    [i \in DOMAIN toolCalls |->
        IF toolCalls[i].id = toolCall.id THEN toolCall ELSE toolCalls[i]]

\* updateToolCallEnd's segments, left as they are
UpdatedSegments_none(segments, toolCall) == segments

\* updateToolCallEnd's segments
UpdatedSegments(segments, toolCall) ==
    [i \in DOMAIN segments |->
        IF segments[i].type = "tool_calls"
        THEN [segments[i] EXCEPT
                !.toolCalls = UpdatedToolCalls(@, toolCall)]
        ELSE segments[i]]

\* setClarification's segments
ClarificationSegments(segments, question) ==
    IF segments = <<>> THEN <<TextSegment(question)>>
    ELSE IF LastSegment(segments).type = "text"
         THEN [segments EXCEPT ![Len(segments)].content = question]
         ELSE Append(segments, TextSegment(question))

\* setBrief's segments
BriefSegments(segments, briefContent) ==
    IF segments = <<>> \/ LastSegment(segments).type = "tool_calls"
    THEN Append(segments, TextSegment(briefContent))
    ELSE [segments EXCEPT
            ![Len(segments)].content = @ \o <<"nn">> \o briefContent]

\* the message startStreaming creates
NewStreamingMessage ==
    [content |-> <<>>, toolCalls |-> <<>>, segments |-> <<>>,
     thinkingContent |-> <<>>, isClarification |-> FALSE]

UserMessage(content) ==
    [role |-> "user", content |-> content, tool_calls |-> <<>>,
     segments |-> <<>>, isClarification |-> FALSE]

\* finishStreaming's finalMessage
FinalMessage(message, option) ==
    [role |-> "assistant", content |-> message.content,
     tool_calls |-> message.toolCalls, segments |-> message.segments,
     isClarification |-> IF option = "undefined"
                         THEN message.isClarification
                         ELSE option = "true"]

\* finishStreaming's currentMessages, a message appended in any case
FinishedMessages_always(message, messages, option) ==
    Append(messages,
           FinalMessage(IF message = NoRecord THEN NewStreamingMessage
                        ELSE message, option))

\* finishStreaming's currentMessages
FinishedMessages(message, messages, option) ==
    IF message = NoRecord THEN messages
    ELSE Append(messages, FinalMessage(message, option))

\* the streamingMessage setError leaves, the message kept
ErrorStreaming_kept(message) == message

\* the streamingMessage setError leaves
ErrorStreaming(message) == NoRecord

\* the Deep Research button is rendered, always
ToggleShown_always(deep, canToggle) == TRUE

\* InputArea renders the Deep Research button
ToggleShown(deep, canToggle) == deep \/ canToggle

\* a call that finds streamingMessage null is a late one
Late == cLate \/ streamingMessage = NoRecord

InitChat ==
    /\ IdleWorkflow
    /\ IdleMerge
    /\ IdleClarify
    /\ IdleLoop
    /\ IdleStream
    /\ IdleUse
    /\ IdleSocket
    /\ currentMessages = <<>>
    /\ streamingMessage = NoRecord
    /\ chatError = Null
    /\ isDeepResearch = FALSE
    /\ canToggleDeepResearch = TRUE
    /\ cEvents = 0
    /\ cLate = FALSE

newChat ==
    /\ currentMessages' = <<>>
    /\ streamingMessage' = NoRecord
    /\ chatError' = Null
    /\ isDeepResearch' = FALSE
    /\ canToggleDeepResearch' = TRUE
    /\ cEvents' = 0
    /\ UNCHANGED <<cLate, restOfChat>>

\* a click on the Deep Research button of InputArea
toggleDeepResearch ==
    /\ ToggleShown(isDeepResearch, canToggleDeepResearch)
    /\ isDeepResearch' = ~isDeepResearch
    /\ UNCHANGED <<currentMessages, streamingMessage, chatError,
                   canToggleDeepResearch, cEvents, cLate, restOfChat>>

lockDeepResearch ==
    /\ canToggleDeepResearch' = FALSE
    /\ UNCHANGED <<currentMessages, streamingMessage, chatError,
                   isDeepResearch, cEvents, cLate, restOfChat>>

addUserMessage ==
    /\ cEvents < MaxStoreEvents
    /\ currentMessages' = Append(currentMessages, UserMessage(<<"u">>))
    /\ canToggleDeepResearch' =
         IF ~isDeepResearch /\ canToggleDeepResearch THEN FALSE
         ELSE canToggleDeepResearch
    /\ cEvents' = cEvents + 1
    /\ UNCHANGED <<streamingMessage, chatError, isDeepResearch, cLate,
                   restOfChat>>

startStreaming ==
    /\ cEvents < MaxStoreEvents
    /\ streamingMessage' = NewStreamingMessage
    /\ cEvents' = cEvents + 1
    /\ cLate' = FALSE
    /\ UNCHANGED <<currentMessages, chatError, isDeepResearch,
                   canToggleDeepResearch, restOfChat>>

\* what a streaming handler does apart from its update of the message
Handler(counted) ==
    /\ cLate' = Late
    /\ cEvents' = IF counted /\ streamingMessage # NoRecord
                  THEN cEvents + 1 ELSE cEvents
    /\ counted /\ streamingMessage # NoRecord => cEvents < MaxStoreEvents
    /\ UNCHANGED <<currentMessages, chatError, isDeepResearch,
                   canToggleDeepResearch, restOfChat>>

appendToken ==
    /\ Handler(TRUE)
    /\ streamingMessage' =
         IF streamingMessage = NoRecord THEN streamingMessage
         ELSE [streamingMessage EXCEPT
                 !.content = @ \o <<"t">>,
                 !.segments = TokenSegments(@, <<"t">>)]

appendThinking ==
    /\ Handler(TRUE)
    /\ streamingMessage' =
         IF streamingMessage = NoRecord THEN streamingMessage
         ELSE [streamingMessage EXCEPT !.thinkingContent = @ \o <<"h">>]

addToolCallStart(toolCall) ==
    /\ Handler(TRUE)
    /\ streamingMessage' =
         IF streamingMessage = NoRecord THEN streamingMessage
         ELSE [streamingMessage EXCEPT
                 !.toolCalls = Append(@, toolCall),
                 !.segments = StartSegments(@, toolCall)]

updateToolCallEnd(toolCall) ==
    /\ Handler(FALSE)
    /\ streamingMessage' =
         IF streamingMessage = NoRecord THEN streamingMessage
         ELSE [streamingMessage EXCEPT
                 !.toolCalls = UpdatedToolCalls(@, toolCall),
                 !.segments = UpdatedSegments(@, toolCall)]

setClarification ==
    /\ Handler(TRUE)
    /\ streamingMessage' =
         IF streamingMessage = NoRecord THEN streamingMessage
         ELSE [streamingMessage EXCEPT
                 !.content = <<"q">>,
                 !.segments = ClarificationSegments(@, <<"q">>),
                 !.isClarification = TRUE]

setBrief ==
    /\ Handler(TRUE)
    /\ streamingMessage' =
         IF streamingMessage = NoRecord THEN streamingMessage
         ELSE [streamingMessage EXCEPT
                 !.content = IF @ # <<>> THEN @ \o <<"nn", "b">>
                             ELSE <<"b">>,
                 !.segments = BriefSegments(@, <<"b">>)]

\* finishStreaming, as the message_complete event and handleStop call it
finishStreaming(option) ==
    /\ currentMessages' =
         FinishedMessages(streamingMessage, currentMessages, option)
    /\ streamingMessage' = NoRecord
    /\ cLate' = Late
    /\ UNCHANGED <<chatError, isDeepResearch, canToggleDeepResearch,
                   cEvents, restOfChat>>

setError ==
    /\ chatError' = "message"
    /\ streamingMessage' = ErrorStreaming(streamingMessage)
    /\ UNCHANGED <<currentMessages, isDeepResearch, canToggleDeepResearch,
                   cEvents, cLate, restOfChat>>

\* handleStreamMessage, case 'error': setError, then finishStreaming
handleStreamError ==
    /\ streamingMessage # NoRecord
    /\ chatError' = "message"
    /\ currentMessages' =
         FinishedMessages(ErrorStreaming(streamingMessage), currentMessages,
                          "undefined")
    /\ streamingMessage' = NoRecord
    /\ UNCHANGED <<isDeepResearch, canToggleDeepResearch, cEvents, cLate,
                   restOfChat>>

NextChat ==
    \/ newChat
    \/ toggleDeepResearch
    \/ lockDeepResearch
    \/ addUserMessage
    \/ startStreaming
    \/ appendToken
    \/ appendThinking
    \/ \E toolCall \in ToolCallValues : addToolCallStart(toolCall)
    \/ \E toolCall \in ToolCallValues : updateToolCallEnd(toolCall)
    \/ setClarification
    \/ setBrief
    \/ \E option \in FinishOptions : finishStreaming(option)
    \/ setError
    \/ handleStreamError

SpecChat == InitChat /\ [][NextChat]_vars

\* the tool calls of the tool_calls segments, one after the other
RECURSIVE SegmentToolCalls(_)
SegmentToolCalls(segments) ==
    IF segments = <<>> THEN <<>>
    ELSE (IF Head(segments).type = "tool_calls" THEN Head(segments).toolCalls
          ELSE <<>>) \o SegmentToolCalls(Tail(segments))

\* C32: whatever store calls have run, the flat toolCalls of the streaming
\* message is the concatenation, in order, of the toolCalls of its
\* tool_calls segments, with the same status for every call.
C32_ToolCallsMatchSegments ==
    streamingMessage # NoRecord =>
        streamingMessage.toolCalls =
            SegmentToolCalls(streamingMessage.segments)

\* two tool_calls segments around a text segment, one call completed
C32_Witness ==
    /\ streamingMessage # NoRecord
    /\ Len(streamingMessage.segments) = 3
    /\ streamingMessage.segments[1].type = "tool_calls"
    /\ streamingMessage.segments[2].type = "text"
    /\ streamingMessage.segments[3].type = "tool_calls"
    /\ streamingMessage.toolCalls[1].status = "completed"

\* C33: addToolCallStart puts the call into the last segment exactly when
\* that segment is a tool_calls segment whose calls are all running;
\* otherwise it appends a new tool_calls segment; the segments before are
\* left as they were.
C33_StartBatchesOnlyIntoRunningSegment ==
    [][\A toolCall \in ToolCallValues :
        (addToolCallStart(toolCall) /\ streamingMessage # NoRecord) =>
          LET old == streamingMessage.segments
              new == streamingMessage'.segments
              batch == /\ old # <<>>
                       /\ LastSegment(old).type = "tool_calls"
                       /\ \A i \in DOMAIN LastSegment(old).toolCalls :
                            LastSegment(old).toolCalls[i].status = "running"
          IN  /\ batch =>
                  /\ Len(new) = Len(old)
                  /\ LastSegment(new).type = "tool_calls"
                  /\ LastSegment(new).toolCalls =
                       Append(LastSegment(old).toolCalls, toolCall)
                  /\ SubSeq(new, 1, Len(old) - 1)
                       = SubSeq(old, 1, Len(old) - 1)
              /\ ~batch =>
                  /\ Len(new) = Len(old) + 1
                  /\ LastSegment(new) = ToolCallsSegment(<<toolCall>>)
                  /\ SubSeq(new, 1, Len(old)) = old]_vars

\* a call was started after the call of the last segment had completed:
\* two tool_calls segments follow each other
C33_Witness ==
    /\ streamingMessage # NoRecord
    /\ Len(streamingMessage.segments) = 2
    /\ streamingMessage.segments[1].type = "tool_calls"
    /\ streamingMessage.segments[2].type = "tool_calls"
    /\ streamingMessage.segments[1].toolCalls[1].status = "completed"
    /\ streamingMessage.segments[2].toolCalls[1].status = "running"

\* one of the handlers of a stream event, or handleStop's finishStreaming
StreamHandlerStep ==
    \/ appendToken
    \/ appendThinking
    \/ \E toolCall \in ToolCallValues : addToolCallStart(toolCall)
    \/ \E toolCall \in ToolCallValues : updateToolCallEnd(toolCall)
    \/ setClarification
    \/ setBrief
    \/ \E option \in FinishOptions : finishStreaming(option)

\* C34: while streamingMessage is null, appendToken, appendThinking,
\* addToolCallStart, updateToolCallEnd, setClarification, setBrief and
\* finishStreaming leave every field of the store as it is, so a late
\* stream event never alters currentMessages.
C34_LateEventsChangeNothing ==
    [][(streamingMessage = NoRecord /\ StreamHandlerStep) =>
         UNCHANGED <<currentMessages, streamingMessage, chatError,
                     isDeepResearch, canToggleDeepResearch>>]_vars

\* a handler ran after the assistant message had been finished
C34_Witness ==
    /\ cLate
    /\ streamingMessage = NoRecord
    /\ currentMessages # <<>>
    /\ currentMessages[Len(currentMessages)].role = "assistant"

\* C35: an 'error' stream event, handled as setError followed by
\* finishStreaming, discards the partly streamed message: currentMessages
\* is unchanged, streamingMessage becomes null and error holds the message.
C35_ErrorDiscardsPartialMessage ==
    [][handleStreamError =>
         /\ currentMessages' = currentMessages
         /\ streamingMessage' = NoRecord
         /\ chatError' = "message"]_vars

\* the error arrived after content had been streamed, and only the user's
\* message is in the conversation
C35_Witness ==
    /\ chatError = "message"
    /\ streamingMessage = NoRecord
    /\ currentMessages = <<UserMessage(<<"u">>)>>
    /\ cEvents >= 3
    /\ ~cLate

\* C36: once addUserMessage has run while isDeepResearch is false, the
\* toggle is locked and isDeepResearch stays false in every later state
\* until newChat.
C36_NoDeepResearchMidChat ==
    [][/\ (addUserMessage /\ ~isDeepResearch) =>
            ~canToggleDeepResearch' /\ ~isDeepResearch'
       /\ (~canToggleDeepResearch /\ ~isDeepResearch /\ ~newChat) =>
            ~canToggleDeepResearch' /\ ~isDeepResearch']_vars

\* the chat started without Deep Research and has gone on
C36_Witness ==
    /\ ~canToggleDeepResearch
    /\ ~isDeepResearch
    /\ Len(currentMessages) >= 3
    /\ currentMessages[1].role = "user"

\* --------------- useWebSocket (frontend/components/sidebar/ModelSelector.tsx)

\* A socket is named by its position in wsSockets. attached says that its
\* four handlers are still set, opened that its open event has fired,
\* origin who called the connect that created it. A timer is named by the
\* socket whose onclose scheduled it.
NewSocket(origin) ==
    [state |-> "connecting", opened |-> FALSE, attached |-> TRUE,
     origin |-> origin]

\* reconnectCountRef.current < reconnectAttempts, one attempt too many
MayReconnect_more(count, attempts) == count <= attempts

\* reconnectCountRef.current < reconnectAttempts
MayReconnect(count, attempts) == count < attempts

\* cleanup's clearTimeout, left out
ClearedTimers_kept(timers, ref) == timers

\* cleanup: clearTimeout(reconnectTimeoutRef.current)
ClearedTimers(timers, ref) == timers \ ref

\* cleanup: the handlers of wsRef.current are detached and it is closed
ClosedSockets(sockets, ref) ==
    [i \in DOMAIN sockets |->
        IF i \in ref
        THEN [sockets[i] EXCEPT !.attached = FALSE, !.state = "closed"]
        ELSE sockets[i]]

InitSocket ==
    /\ IdleWorkflow
    /\ IdleMerge
    /\ IdleClarify
    /\ IdleLoop
    /\ IdleStream
    /\ IdleUse
    /\ IdleChat
    /\ wsStatus = "disconnected"
    /\ wsError = Null
    /\ wsRef = {}
    /\ reconnectCountRef = 0
    /\ reconnectTimeoutRef = {}
    /\ wsTimers = {}
    /\ wsSockets = <<>>
    /\ wsDisconnected = FALSE

\* the body of connect(conversationId)
Connecting(timers, origin) ==
    /\ wsTimers' = ClearedTimers(timers, reconnectTimeoutRef)
    /\ wsSockets' = Append(ClosedSockets(wsSockets, wsRef), NewSocket(origin))
    /\ wsRef' = {Len(wsSockets) + 1}
    /\ wsStatus' = "connecting"
    /\ wsError' = Null
    /\ UNCHANGED <<reconnectCountRef, reconnectTimeoutRef, wsDisconnected,
                   restOfSocket>>

\* connect(conversationId) called by the component
connect ==
    /\ Len(wsSockets) < MaxSockets
    /\ Connecting(wsTimers, "connect")

\* the reconnect timer of socket t fires and calls connect
reconnect(t) ==
    /\ t \in wsTimers
    /\ Len(wsSockets) < MaxSockets
    /\ Connecting(wsTimers \ {t}, "reconnect")

onopen(i) ==
    /\ i \in DOMAIN wsSockets
    /\ wsSockets[i].attached
    /\ wsSockets[i].state = "connecting"
    /\ wsSockets' = [wsSockets EXCEPT ![i].state = "open", ![i].opened = TRUE]
    /\ wsStatus' = "connected"
    /\ reconnectCountRef' = 0
    /\ wsDisconnected' = FALSE
    /\ UNCHANGED <<wsError, wsRef, reconnectTimeoutRef, wsTimers,
                   restOfSocket>>

onerror(i) ==
    /\ i \in DOMAIN wsSockets
    /\ wsSockets[i].attached
    /\ wsSockets[i].state \in {"connecting", "open"}
    /\ wsStatus' = "error"
    /\ wsError' = "WebSocket connection error"
    /\ UNCHANGED <<wsRef, reconnectCountRef, reconnectTimeoutRef, wsTimers,
                   wsSockets, wsDisconnected, restOfSocket>>

onclose(i) ==
    /\ i \in DOMAIN wsSockets
    /\ wsSockets[i].attached
    /\ wsSockets[i].state \in {"connecting", "open"}
    /\ wsSockets' = [wsSockets EXCEPT ![i].state = "closed"]
    /\ wsStatus' = "disconnected"
    /\ IF MayReconnect(reconnectCountRef, DefaultReconnectAttempts)
       THEN /\ reconnectCountRef' = reconnectCountRef + 1
            /\ wsTimers' = wsTimers \cup {i}
            /\ reconnectTimeoutRef' = {i}
       ELSE UNCHANGED <<reconnectCountRef, wsTimers, reconnectTimeoutRef>>
    /\ UNCHANGED <<wsError, wsRef, wsDisconnected, restOfSocket>>

disconnect ==
    /\ reconnectCountRef' = DefaultReconnectAttempts
    /\ wsTimers' = ClearedTimers(wsTimers, reconnectTimeoutRef)
    /\ wsSockets' = ClosedSockets(wsSockets, wsRef)
    /\ wsRef' = {}
    /\ wsStatus' = "disconnected"
    /\ wsDisconnected' = TRUE
    /\ UNCHANGED <<wsError, reconnectTimeoutRef, restOfSocket>>

NextSocket ==
    \/ connect
    \/ \E t \in 1..MaxSockets : reconnect(t)
    \/ \E i \in 1..MaxSockets : onopen(i)
    \/ \E i \in 1..MaxSockets : onerror(i)
    \/ \E i \in 1..MaxSockets : onclose(i)
    \/ disconnect

SpecSocket == InitSocket /\ [][NextSocket]_vars

\* the newest socket whose open event has fired, else the first socket
BaseSocket ==
    LET opened == {i \in DOMAIN wsSockets : wsSockets[i].opened}
    IN IF opened = {} THEN 1
       ELSE CHOOSE i \in opened : \A j \in opened : j <= i

\* the sockets created after it
LaterSockets == {i \in DOMAIN wsSockets : i > BaseSocket}

\* since the hook was mounted or a socket last opened, the component has
\* called neither connect nor disconnect
OnlyReconnects ==
    /\ wsSockets # <<>>
    /\ ~wsDisconnected
    /\ \A i \in LaterSockets : wsSockets[i].origin = "reconnect"

\* the newest socket has closed by itself and no timer is pending
Quiet ==
    /\ wsTimers = {}
    /\ wsSockets[Len(wsSockets)].state = "closed"
    /\ wsSockets[Len(wsSockets)].attached

\* C37: from a fresh hook or after a successful open, when the connection
\* closes and every reconnect fails to open, exactly reconnectAttempts
\* automatic reconnects are made and then none; an open resets the count.
C37_ExactlyReconnectAttempts ==
    /\ [](OnlyReconnects =>
            /\ Cardinality(LaterSockets) <= DefaultReconnectAttempts
            /\ Quiet => Cardinality(LaterSockets) = DefaultReconnectAttempts)
    /\ [][\A i \in 1..MaxSockets : onopen(i) => reconnectCountRef' = 0]_vars

\* a socket opened and dropped, and the three reconnects after it failed
C37_Witness ==
    /\ OnlyReconnects
    /\ Quiet
    /\ wsSockets[BaseSocket].opened
    /\ Cardinality(LaterSockets) = DefaultReconnectAttempts

\* disconnect() has run and connect() has not been called since
Disconnected == wsDisconnected /\ wsRef = {}

\* C38: after disconnect() no reconnect timer is pending and no socket
\* has a handler left, so neither fires, and status stays 'disconnected'
\* until connect() is called.
C38_DisconnectIsFinal ==
    /\ [](Disconnected =>
            /\ wsStatus = "disconnected"
            /\ wsTimers = {}
            /\ \A i \in DOMAIN wsSockets : ~wsSockets[i].attached)
    /\ [][(Disconnected /\ ~connect) =>
            UNCHANGED <<wsStatus, wsError, wsSockets, wsTimers>>]_vars

\* disconnect() cleared the timer that the newest socket's close had set
C38_Witness ==
    /\ Disconnected
    /\ wsSockets # <<>>
    /\ reconnectTimeoutRef = {Len(wsSockets)}

\* C39: when the socket of an explicit connect() closes without having
\* opened, a reconnect is scheduled: every explicit connect has the full
\* retry budget, also after a disconnect().
C39_ConnectHasFullBudget ==
    [][\A i \in 1..MaxSockets :
         (onclose(i) /\ wsSockets[i].origin = "connect"
                     /\ ~wsSockets[i].opened) => i \in wsTimers']_vars

====
